---- MODULE Spec2Model ----
(***************************************************************************)
(* repobee-sanitizer: the marker lexer (contained_marker) and the syntax   *)
(* validator (check_syntax, _check_shred_syntax) of                        *)
(* repobee_sanitizer/_syntax.py.                                           *)
(*                                                                         *)
(* A line is a sequence of symbols.  A symbol is either one of the four    *)
(* marker tokens, taken as one indivisible symbol, or an ordinary          *)
(* character.  No marker token is a substring of another and no proper     *)
(* suffix of a token is a prefix of a token, so a Python string splits in  *)
(* exactly one way into tokens and other characters, and "token in line",  *)
(* "text before the first START token" and "line.startswith(prefix)" are   *)
(* the same on the string and on its symbol sequence.                      *)
(***************************************************************************)
EXTENDS Integers, Sequences, FiniteSets, TLC

VARIABLES lines, pc, shred_errors, errors, disk, outfile, ret, args, repo

vars == <<lines, pc, shred_errors, errors, disk, outfile, ret, args, repo>>

\* What the calls on files and repositories read and write: the text of the
\* file on disk, the output file of the sanitize-file command, the value a
\* call returned, the arguments of the call and the git repository.
files == <<disk, outfile, ret, args, repo>>

(***************************************************************************)
(* Markers (enum), in definition order: iteration over the enum is in this *)
(* order.                                                                  *)
(***************************************************************************)
START == "REPOBEE-SANITIZER-START"
REPLACE == "REPOBEE-SANITIZER-REPLACE-WITH"
END == "REPOBEE-SANITIZER-END"
SHRED == "REPOBEE-SANITIZER-SHRED"

Markers == <<START, REPLACE, END, SHRED>>

\* Python's None, the result of contained_marker on a markerless line and
\* of a function that returns nothing.
None == "None"

\* A path at which there is no file.
NoFile == "NoFile"

(***************************************************************************)
(* The error messages, as the f-strings of _syntax.py build them.  An      *)
(* error "Line {n}: {msg}" is the record [line |-> n, msg |-> msg]; a      *)
(* file-level error, which has no "Line n: " part, has line 0.             *)
(***************************************************************************)
MsgStart == "START block must begin file or follow an END block"
MsgReplace == "REPLACE-WITH block must follow START block"
MsgEnd == "END block must follow START or REPLACE block"
MsgPrefix == "Missing prefix"
MsgFinal == "Final block must be an END block"
MsgNoMarkers == "There are no markers in the file"
MsgShredLine == "SHRED marker only allowed on line 1"
MsgAfterShred == "Marker is dissallowed after SHRED marker"

LineError(line_number, msg) == [line |-> line_number, msg |-> msg]
FileError(msg) == [line |-> 0, msg |-> msg]

(***************************************************************************)
(* Inputs.  The lines a file is drawn from: ordinary text with and without *)
(* a comment token, marker lines with no prefix, with the prefix "/" and   *)
(* with the indented prefix " /", and a line holding two marker tokens.    *)
(***************************************************************************)
MaxLines == 4

InputLines ==
    { <<>>,
      <<"x">>,
      <<"/", "x">>,
      <<START>>,
      <<"/", START>>,
      <<" ", "/", START>>,
      <<"/", REPLACE>>,
      <<REPLACE>>,
      <<"/", END>>,
      <<END>>,
      <<SHRED>>,
      <<"/", SHRED, END>> }

Files == UNION { [1..n -> InputLines] : n \in 0..MaxLines }

(***************************************************************************)
(* String helpers.                                                         *)
(***************************************************************************)
SetMin(S) == CHOOSE x \in S : \A y \in S : x <= y
SetMax(S) == CHOOSE x \in S : \A y \in S : x >= y

\* marker.value in line
token_in(token, line) == \E i \in DOMAIN line : line[i] = token

\* line.startswith(prefix)
startswith(line, prefix) ==
    /\ Len(prefix) <= Len(line)
    /\ \A i \in 1..Len(prefix) : line[i] = prefix[i]

\* str.lstrip and str.strip, for the one whitespace character of the inputs.
RECURSIVE lstrip(_)
lstrip(s) ==
    IF s # <<>> /\ Head(s) = " " THEN lstrip(Tail(s)) ELSE s

RECURSIVE rstrip(_)
rstrip(s) ==
    IF s # <<>> /\ s[Len(s)] = " " THEN rstrip(SubSeq(s, 1, Len(s) - 1)) ELSE s

strip(s) == rstrip(lstrip(s))

\* A slip: the captured prefix has its surrounding whitespace removed.
start_prefix_trimmed(line) ==
    strip(SubSeq(line, 1, SetMin({i \in DOMAIN line : line[i] = START}) - 1))

\* re.match(rf"(.*?){Markers.START.value}", line).group(1): the non-greedy
\* group ends at the first START token of the line.
start_prefix(line) ==
    SubSeq(line, 1, SetMin({i \in DOMAIN line : line[i] = START}) - 1)

(***************************************************************************)
(* contained_marker: the first marker of the enum whose token is in line.  *)
(***************************************************************************)
contained_marker(line) ==
    LET hits == {k \in DOMAIN Markers : token_in(Markers[k], line)}
    IN  IF hits = {} THEN None ELSE Markers[SetMin(hits)]

(***************************************************************************)
(* _check_shred_syntax: one pass, the errors in line order.                *)
(***************************************************************************)
\* A slip: block markers are reported whether or not line 1 has SHRED.
shred_line_errors_any_file(has_shred_marker, line_number, line) ==
    LET marker == contained_marker(line)
    IN  IF marker = SHRED /\ line_number # 1
        THEN <<LineError(line_number, MsgShredLine)>>
        ELSE IF marker # None /\ marker # SHRED
             THEN <<LineError(line_number, MsgAfterShred)>>
             ELSE <<>>

shred_line_errors(has_shred_marker, line_number, line) ==
    LET marker == contained_marker(line)
    IN  IF marker = SHRED /\ line_number # 1
        THEN <<LineError(line_number, MsgShredLine)>>
        ELSE IF marker # None /\ marker # SHRED /\ has_shred_marker
             THEN <<LineError(line_number, MsgAfterShred)>>
             ELSE <<>>

RECURSIVE shred_loop(_, _, _)
shred_loop(ls, has_shred_marker, n) ==
    IF n = 0 THEN <<>>
    ELSE shred_loop(ls, has_shred_marker, n - 1)
         \o shred_line_errors(has_shred_marker, n, ls[n])

check_shred_syntax(ls) ==
    LET has_shred_marker ==
            contained_marker(IF Len(ls) > 0 THEN ls[1] ELSE <<>>) = SHRED
    IN  shred_loop(ls, has_shred_marker, Len(ls))

(***************************************************************************)
(* check_syntax, the block scan.  The loop carries last, prefix and        *)
(* has_blocks and appends to errors; one iteration is scan_line.           *)
(***************************************************************************)

\* A slip: START is reported only right after another START.
order_error_start_after_start(last, marker, line_number) ==
    IF marker = START /\ last = START
    THEN <<LineError(line_number, MsgStart)>>
    ELSE IF marker = REPLACE /\ last # START
    THEN <<LineError(line_number, MsgReplace)>>
    ELSE IF marker = END /\ last \notin {START, REPLACE}
    THEN <<LineError(line_number, MsgEnd)>>
    ELSE <<>>

\* A slip: REPLACE is reported only when no block is open.
order_error_replace_after_end(last, marker, line_number) ==
    IF marker = START /\ last # END
    THEN <<LineError(line_number, MsgStart)>>
    ELSE IF marker = REPLACE /\ last = END
    THEN <<LineError(line_number, MsgReplace)>>
    ELSE IF marker = END /\ last \notin {START, REPLACE}
    THEN <<LineError(line_number, MsgEnd)>>
    ELSE <<>>

\* A slip: END is reported unless it follows START.
order_error_end_after_start(last, marker, line_number) ==
    IF marker = START /\ last # END
    THEN <<LineError(line_number, MsgStart)>>
    ELSE IF marker = REPLACE /\ last # START
    THEN <<LineError(line_number, MsgReplace)>>
    ELSE IF marker = END /\ last # START
    THEN <<LineError(line_number, MsgEnd)>>
    ELSE <<>>

\* The order checks of the three branches (lines 77-99).
order_error(last, marker, line_number) ==
    IF marker = START /\ last # END
    THEN <<LineError(line_number, MsgStart)>>
    ELSE IF marker = REPLACE /\ last # START
    THEN <<LineError(line_number, MsgReplace)>>
    ELSE IF marker = END /\ last \notin {START, REPLACE}
    THEN <<LineError(line_number, MsgEnd)>>
    ELSE <<>>

\* last after the line: each of the three branches assigns its own marker.
next_last(last, marker) ==
    IF marker \in {START, REPLACE, END} THEN marker ELSE last

\* prefix after the line: only the START branch assigns it (line 84).
next_prefix(prefix, marker, line) ==
    IF marker = START THEN start_prefix(line) ELSE prefix

\* A slip: the END line is not checked for the prefix.
prefix_error_not_end(last, marker, line, prefix, line_number) ==
    IF last = REPLACE /\ ~startswith(line, prefix)
    THEN <<LineError(line_number, MsgPrefix)>>
    ELSE <<>>

\* The prefix check that closes every iteration (lines 101-104), on the
\* values of last and prefix after the branches.
prefix_error(last, marker, line, prefix, line_number) ==
    IF (last = REPLACE \/ marker = END) /\ ~startswith(line, prefix)
    THEN <<LineError(line_number, MsgPrefix)>>
    ELSE <<>>

\* A slip: the prefix check of a line is made before its branch reports.
scan_line_prefix_first(st, line_number, line) ==
    LET marker == contained_marker(line)
        last == next_last(st.last, marker)
        prefix == next_prefix(st.prefix, marker, line)
    IN  [last |-> last,
         prefix |-> prefix,
         has_blocks |-> st.has_blocks \/ marker = START,
         errors |-> st.errors
                    \o prefix_error(last, marker, line, prefix, line_number)
                    \o order_error(st.last, marker, line_number)]

scan_line(st, line_number, line) ==
    LET marker == contained_marker(line)
        last == next_last(st.last, marker)
        prefix == next_prefix(st.prefix, marker, line)
    IN  [last |-> last,
         prefix |-> prefix,
         has_blocks |-> st.has_blocks \/ marker = START,
         errors |-> st.errors
                    \o order_error(st.last, marker, line_number)
                    \o prefix_error(last, marker, line, prefix, line_number)]

\* The state before the loop (lines 67-69); errors is the empty list that
\* _check_shred_syntax returned.
scan_init(ls) ==
    [last |-> END,
     prefix |-> <<>>,
     has_blocks |-> Len(ls) > 0 /\ contained_marker(ls[1]) = SHRED,
     errors |-> <<>>]

RECURSIVE scan_loop(_, _)
scan_loop(ls, n) ==
    IF n = 0 THEN scan_init(ls)
    ELSE scan_line(scan_loop(ls, n - 1), n, ls[n])

\* A slip: the has_blocks check is left out.
final_errors_no_blocks_check(last, has_blocks) ==
    IF last # END THEN <<FileError(MsgFinal)>> ELSE <<>>

\* A slip: only a block left open before its REPLACE is reported.
final_errors_start_only(last, has_blocks) ==
    (IF last = START THEN <<FileError(MsgFinal)>> ELSE <<>>)
    \o (IF ~has_blocks THEN <<FileError(MsgNoMarkers)>> ELSE <<>>)

\* The two file-level checks after the loop (lines 106-110).
final_errors(last, has_blocks) ==
    (IF last # END THEN <<FileError(MsgFinal)>> ELSE <<>>)
    \o (IF ~has_blocks THEN <<FileError(MsgNoMarkers)>> ELSE <<>>)

\* A slip: the shred errors do not end the check, the block scan appends.
check_syntax_no_early_raise(ls) ==
    LET serrs == check_shred_syntax(ls)
        st == scan_loop(ls, Len(ls))
        errs == serrs \o st.errors \o final_errors(st.last, st.has_blocks)
    IN  [raised |-> errs # <<>>, stage |-> "scan", errors |-> errs]

\* check_syntax: raised tells whether PlugError is raised, errors is its
\* argument, stage is the raise statement reached (line 73 or line 113).
check_syntax(ls) ==
    LET serrs == check_shred_syntax(ls)
    IN  IF serrs # <<>>
        THEN [raised |-> TRUE, stage |-> "shred", errors |-> serrs]
        ELSE LET st == scan_loop(ls, Len(ls))
                 errs == st.errors \o final_errors(st.last, st.has_blocks)
             IN  [raised |-> errs # <<>>, stage |-> "scan", errors |-> errs]

(***************************************************************************)
(* The state machine: a caller holds a file and calls check_syntax on it.  *)
(* shred_errors is the list _check_shred_syntax returned at line 71.       *)
(***************************************************************************)
Init ==
    /\ lines \in Files
    /\ pc = "call"
    /\ shred_errors = <<>>
    /\ errors = <<>>
    /\ disk = NoFile
    /\ outfile = NoFile
    /\ ret = None
    /\ args = None
    /\ repo = None

\* check_syntax raises at line 73, after the shred check.
check_syntax_raise_shred ==
    /\ pc = "call"
    /\ check_syntax(lines).raised
    /\ check_syntax(lines).stage = "shred"
    /\ pc' = "shred_raised"
    /\ shred_errors' = check_shred_syntax(lines)
    /\ errors' = check_syntax(lines).errors
    /\ UNCHANGED <<lines, files>>

\* check_syntax raises at line 113, after the block scan.
check_syntax_raise ==
    /\ pc = "call"
    /\ check_syntax(lines).raised
    /\ check_syntax(lines).stage = "scan"
    /\ pc' = "raised"
    /\ shred_errors' = check_shred_syntax(lines)
    /\ errors' = check_syntax(lines).errors
    /\ UNCHANGED <<lines, files>>

\* check_syntax returns None: the file is accepted.
check_syntax_return ==
    /\ pc = "call"
    /\ ~check_syntax(lines).raised
    /\ pc' = "returned"
    /\ shred_errors' = check_shred_syntax(lines)
    /\ errors' = check_syntax(lines).errors
    /\ UNCHANGED <<lines, files>>

Next ==
    \/ check_syntax_raise_shred
    \/ check_syntax_raise
    \/ check_syntax_return

Spec == Init /\ [][Next]_vars

(***************************************************************************)
(* _sanitize and _strip of repobee_sanitizer/_sanitize.py: generators, one *)
(* pass over the lines; out is the list of the lines yielded so far.       *)
(***************************************************************************)

\* line[prefix_length:]
slice_from(line, prefix_length) == SubSeq(line, prefix_length + 1, Len(line))

\* A slip: the line of a START marker is yielded before keep is cleared.
sanitize_line_emits_start(st, line) ==
    LET marker == contained_marker(line)
    IN  IF marker = START
        THEN [keep |-> FALSE,
              prefix_length |-> Len(start_prefix(line)),
              out |-> IF st.keep THEN Append(st.out, line) ELSE st.out]
        ELSE IF marker \in {REPLACE, END}
        THEN [keep |-> TRUE,
              prefix_length |-> IF marker = END THEN 0 ELSE st.prefix_length,
              out |-> st.out]
        ELSE [keep |-> st.keep,
              prefix_length |-> st.prefix_length,
              out |-> IF st.keep
                      THEN Append(st.out, slice_from(line, st.prefix_length))
                      ELSE st.out]

\* A slip: END does not reset prefix_length.
sanitize_line_keeps_prefix_length(st, line) ==
    LET marker == contained_marker(line)
    IN  IF marker = START
        THEN [keep |-> FALSE,
              prefix_length |-> Len(start_prefix(line)),
              out |-> st.out]
        ELSE IF marker \in {REPLACE, END}
        THEN [keep |-> TRUE,
              prefix_length |-> st.prefix_length,
              out |-> st.out]
        ELSE [keep |-> st.keep,
              prefix_length |-> st.prefix_length,
              out |-> IF st.keep
                      THEN Append(st.out, slice_from(line, st.prefix_length))
                      ELSE st.out]

\* A slip: the replacement lines are yielded with their prefix.
sanitize_line_no_slice(st, line) ==
    LET marker == contained_marker(line)
    IN  IF marker = START
        THEN [keep |-> FALSE,
              prefix_length |-> Len(start_prefix(line)),
              out |-> st.out]
        ELSE IF marker \in {REPLACE, END}
        THEN [keep |-> TRUE,
              prefix_length |-> IF marker = END THEN 0 ELSE st.prefix_length,
              out |-> st.out]
        ELSE [keep |-> st.keep,
              prefix_length |-> st.prefix_length,
              out |-> IF st.keep THEN Append(st.out, line) ELSE st.out]

\* A slip: an emitted line is put before the lines emitted so far.
sanitize_line_prepends(st, line) ==
    LET marker == contained_marker(line)
    IN  IF marker = START
        THEN [keep |-> FALSE, prefix_length |-> Len(start_prefix(line)),
              out |-> st.out]
        ELSE IF marker \in {REPLACE, END}
        THEN [keep |-> TRUE,
              prefix_length |-> IF marker = END THEN 0 ELSE st.prefix_length,
              out |-> st.out]
        ELSE [keep |-> st.keep, prefix_length |-> st.prefix_length,
              out |-> IF st.keep
                      THEN <<slice_from(line, st.prefix_length)>> \o st.out
                      ELSE st.out]

\* A slip: one character more than the prefix is counted.
sanitize_line_cuts_one_more(st, line) ==
    LET marker == contained_marker(line)
    IN  IF marker = START
        THEN [keep |-> FALSE, prefix_length |-> Len(start_prefix(line)) + 1,
              out |-> st.out]
        ELSE IF marker \in {REPLACE, END}
        THEN [keep |-> TRUE,
              prefix_length |-> IF marker = END THEN 0 ELSE st.prefix_length,
              out |-> st.out]
        ELSE [keep |-> st.keep, prefix_length |-> st.prefix_length,
              out |-> IF st.keep
                      THEN Append(st.out, slice_from(line, st.prefix_length))
                      ELSE st.out]

\* One iteration of _sanitize (lines 82-93).  On START the prefix length is
\* taken and keep cleared, so the line is not yielded; REPLACE and END set
\* keep and continue; any other line is yielded, cut, while keep holds.
sanitize_line(st, line) ==
    LET marker == contained_marker(line)
    IN  IF marker = START
        THEN [keep |-> FALSE,
              prefix_length |-> Len(start_prefix(line)),
              out |-> st.out]
        ELSE IF marker \in {REPLACE, END}
        THEN [keep |-> TRUE,
              prefix_length |-> IF marker = END THEN 0 ELSE st.prefix_length,
              out |-> st.out]
        ELSE [keep |-> st.keep,
              prefix_length |-> st.prefix_length,
              out |-> IF st.keep
                      THEN Append(st.out, slice_from(line, st.prefix_length))
                      ELSE st.out]

RECURSIVE sanitize_loop(_, _)
sanitize_loop(ls, n) ==
    IF n = 0 THEN [keep |-> TRUE, prefix_length |-> 0, out |-> <<>>]
    ELSE sanitize_line(sanitize_loop(ls, n - 1), ls[n])

_sanitize(ls) == sanitize_loop(ls, Len(ls)).out

\* A slip: the SHRED line is not skipped.
strip_line_keeps_shred(st, line) ==
    LET marker == contained_marker(line)
    IN  IF marker = START
        THEN st
        ELSE IF marker = END
        THEN [keep |-> TRUE, out |-> st.out]
        ELSE IF marker = REPLACE
        THEN [keep |-> FALSE, out |-> st.out]
        ELSE [keep |-> st.keep,
              out |-> IF st.keep THEN Append(st.out, line) ELSE st.out]

\* A slip: the REPLACE branch leaves keep as it is.
strip_line_replace_keeps(st, line) ==
    LET marker == contained_marker(line)
    IN  IF marker = START \/ marker = SHRED THEN st
        ELSE IF marker = END THEN [keep |-> TRUE, out |-> st.out]
        ELSE [keep |-> st.keep,
              out |-> IF st.keep THEN Append(st.out, line) ELSE st.out]

\* One iteration of _strip (lines 98-108).  START and SHRED lines are
\* skipped; REPLACE clears keep before the yield; END sets it and continues.
strip_line(st, line) ==
    LET marker == contained_marker(line)
    IN  IF marker = START \/ marker = SHRED
        THEN st
        ELSE IF marker = END
        THEN [keep |-> TRUE, out |-> st.out]
        ELSE LET keep == IF marker = REPLACE THEN FALSE ELSE st.keep
             IN  [keep |-> keep,
                  out |-> IF keep THEN Append(st.out, line) ELSE st.out]

RECURSIVE strip_loop(_, _)
strip_loop(ls, n) ==
    IF n = 0 THEN [keep |-> TRUE, out |-> <<>>]
    ELSE strip_line(strip_loop(ls, n - 1), ls[n])

_strip(ls) == strip_loop(ls, Len(ls)).out

(***************************************************************************)
(* The transforms applied to a list of lines.  The lines are those of the  *)
(* example of the documentation: a block with the prefix "/ ", its         *)
(* instructor line and its replacement line, a SHRED line, and a START     *)
(* line that also holds the SHRED token.                                   *)
(***************************************************************************)
MaxTransformLines == 5

TransformLines ==
    { <<"x">>,
      <<"/", " ", "y">>,
      <<"/", " ", START>>,
      <<"/", " ", REPLACE>>,
      <<"/", " ", END>>,
      <<SHRED>>,
      <<"/", " ", START, SHRED>> }

TransformFiles == UNION { [1..n -> TransformLines] : n \in 0..MaxTransformLines }

InitTransform ==
    /\ lines \in TransformFiles
    /\ pc = "call"
    /\ shred_errors = <<>>
    /\ errors = <<>>
    /\ disk = NoFile
    /\ outfile = NoFile
    /\ ret = None
    /\ args = None
    /\ repo = None

\* list(_sanitize(lines))
call_sanitize ==
    /\ pc = "call"
    /\ pc' = "sanitized"
    /\ ret' = _sanitize(lines)
    /\ UNCHANGED <<lines, shred_errors, errors, disk, outfile, args, repo>>

\* list(_strip(lines))
call_strip ==
    /\ pc = "call"
    /\ pc' = "stripped"
    /\ ret' = _strip(lines)
    /\ UNCHANGED <<lines, shred_errors, errors, disk, outfile, args, repo>>

NextTransform ==
    \/ call_sanitize
    \/ call_strip

SpecTransform == InitTransform /\ [][NextTransform]_vars

(***************************************************************************)
(* The lexer on text.  Here a line is a string of characters and the       *)
(* tokens are the strings of the enum, so that "marker.value in line" is   *)
(* the substring test.  A line is put together from pieces: the four       *)
(* tokens, an ordinary character, and two parts of a token, the stem       *)
(* "REPOBEE-SANITIZER-" and the word "END", which side by side spell the   *)
(* END token.                                                              *)
(***************************************************************************)
StemText ==
    << "R", "E", "P", "O", "B", "E", "E", "-", "S", "A", "N", "I",
           "T", "I", "Z", "E", "R", "-" >>

EndWordText == << "E", "N", "D" >>

\* Markers.X.value, character by character.
value(marker) ==
    IF marker = START THEN StemText \o << "S", "T", "A", "R", "T" >>
    ELSE IF marker = REPLACE
    THEN StemText \o << "R", "E", "P", "L", "A", "C", "E", "-", "W", "I", "T", "H" >>
    ELSE IF marker = END THEN StemText \o EndWordText
    ELSE StemText \o << "S", "H", "R", "E", "D" >>

\* sub in s
in_str(sub, s) ==
    \E k \in 0..(Len(s) - Len(sub)) : SubSeq(s, k + 1, k + Len(sub)) = sub

\* A slip: the last marker of the enum found in the line is returned.
contained_marker_text_last(s) ==
    LET hits == {k \in DOMAIN Markers : in_str(value(Markers[k]), s)}
    IN  IF hits = {} THEN None ELSE Markers[SetMax(hits)]

\* contained_marker on a string of characters.
contained_marker_text(s) ==
    LET hits == {k \in DOMAIN Markers : in_str(value(Markers[k]), s)}
    IN  IF hits = {} THEN None ELSE Markers[SetMin(hits)]

MaxPieces == 3

Pieces == {START, REPLACE, END, SHRED, "x", "stem", "END"}

piece_text(piece) ==
    IF piece \in {START, REPLACE, END, SHRED} THEN value(piece)
    ELSE IF piece = "stem" THEN StemText
    ELSE IF piece = "END" THEN EndWordText
    ELSE <<piece>>

\* The string a sequence of pieces spells.
RECURSIVE text(_)
text(line) ==
    IF line = <<>> THEN <<>> ELSE piece_text(Head(line)) \o text(Tail(line))

LexLines == UNION { [1..n -> Pieces] : n \in 0..MaxPieces }

InitLex ==
    /\ lines \in {<<line>> : line \in LexLines}
    /\ pc = "call"
    /\ shred_errors = <<>>
    /\ errors = <<>>
    /\ disk = NoFile
    /\ outfile = NoFile
    /\ ret = None
    /\ args = None
    /\ repo = None

\* contained_marker(line), on the string the pieces of the line spell.
call_contained_marker ==
    /\ pc = "call"
    /\ pc' = "lexed"
    /\ ret' = contained_marker_text(text(lines[1]))
    /\ UNCHANGED <<lines, shred_errors, errors, disk, outfile, args, repo>>

NextLex == call_contained_marker

SpecLex == InitLex /\ [][NextLex]_vars

(***************************************************************************)
(* Files and the repository.  A text is a string of symbols in which "\n"  *)
(* ends a line.  The repository holds one file with sanitizer input, which *)
(* is tracked, next to committed files without markers.  disk is the file  *)
(* in the working tree; repo holds the file at the HEAD commit and in the  *)
(* index, whether the working tree has an untracked file, the number of    *)
(* commits of the target branch (0 when the branch does not exist) and the *)
(* file at the tip of the target branch.  The target branch is not the     *)
(* branch that is checked out.                                             *)
(***************************************************************************)
NL == "\n"

\* "\n".join(ls)
RECURSIVE join(_)
join(ls) ==
    IF ls = <<>> THEN <<>>
    ELSE IF Len(ls) = 1 THEN ls[1]
    ELSE ls[1] \o <<NL>> \o join(Tail(ls))

\* content.split("\n")
RECURSIVE split(_)
split(content) ==
    LET breaks == {i \in DOMAIN content : content[i] = NL}
    IN  IF breaks = {} THEN <<content>>
        ELSE LET k == SetMin(breaks)
             IN  <<SubSeq(content, 1, k - 1)>>
                     \o split(SubSeq(content, k + 1, Len(content)))

File(content) == [exists |-> TRUE, text |-> content]

Missing == [exists |-> FALSE, text |-> <<>>]

ReturnNone == [kind |-> "None"]

ReturnText(content) == [kind |-> "text", text |-> content]

PlugError(errs) == [kind |-> "PlugError", errors |-> errs]

Result(status, msg) == [kind |-> "Result", status |-> status, msg |-> msg]

MsgStaged == "There are uncommitted staged files in the repo"
MsgUntracked == "There are untracked files in the repo"
MsgUnstaged == "There are uncommitted unstaged files in the repo"
MsgSuccess == "Successfully sanitized repo"
MsgNoDiff ==
    "No diff between target branch and sanitized output. No changes will be made to branch"
MsgSuccessBranch == "Successfully sanitized repo to pull request branch"

\* if value:  of an Optional[str]
truthy(r) == r.kind = "text" /\ r.text # <<>>

\* sanitize_file: what it leaves on disk and what it returns.
sanitize_file(file) ==
    LET ls == split(file.text)
    IN  IF contained_marker(ls[1]) = SHRED
        THEN [disk |-> Missing, ret |-> ReturnNone]
        ELSE [disk |-> file, ret |-> ReturnText(join(_sanitize(ls)))]

\* A slip: a file that begins with a SHRED marker is unlinked.
strip_file_unlinks(file) ==
    LET ls == split(file.text)
    IN  IF contained_marker(ls[1]) = SHRED
        THEN [disk |-> Missing, ret |-> ReturnNone]
        ELSE [disk |-> file, ret |-> ReturnText(join(_strip(ls)))]

strip_file(file) ==
    LET ls == split(file.text)
    IN  [disk |-> file, ret |-> ReturnText(join(_strip(ls)))]

sanitize_text(content) ==
    LET ls == split(content)
        checked == check_syntax(ls)
    IN  IF checked.raised THEN PlugError(checked.errors)
        ELSE ReturnText(join(_sanitize(ls)))

strip_text(content) ==
    LET ls == split(content)
        checked == check_syntax(ls)
    IN  IF checked.raised THEN PlugError(checked.errors)
        ELSE ReturnText(join(_strip(ls)))

\* RelativePath: the encoding that was inferred for the file.
RelativePath(encoding) == [encoding |-> encoding]

is_binary(relpath) == relpath.encoding = "binary"

\* The encodings of the files: binary and two encodings of text.
Encodings == {"binary", "utf-8", "iso-8859-1"}

\* The path of the file of the repository, which is a text file.
TextPath == RelativePath("utf-8")

\* A slip: SHRED is not among the markers looked for.
file_is_dirty_without_shred(relpath, file) ==
    IF is_binary(relpath) THEN [ret |-> FALSE, read |-> FALSE]
    ELSE LET ls == split(file.text)
         IN  [ret |-> \E i \in DOMAIN ls :
                         contained_marker(ls[i]) \in {START, REPLACE, END},
              read |-> TRUE]

\* file_is_dirty: what it returns and whether it read the file as text.
file_is_dirty(relpath, file) ==
    IF is_binary(relpath) THEN [ret |-> FALSE, read |-> FALSE]
    ELSE LET ls == split(file.text)
         IN  [ret |-> \E i \in DOMAIN ls : contained_marker(ls[i]) # None,
              read |-> TRUE]

\* The paths of the files to sanitize: "f" is the one file of the model.
_parse_file_list == <<"f">>

_discover_dirty_files(file) ==
    IF file_is_dirty(TextPath, file).ret THEN <<"f">> ELSE <<>>

\* _sanitize_files: the file it leaves in the tree at basedir.
_sanitize_files(file, file_relpaths) ==
    IF file_relpaths = <<>> THEN file
    ELSE LET sanitized == sanitize_file(file)
         IN  IF truthy(sanitized.ret) THEN File(sanitized.ret.text)
             ELSE sanitized.disk

Repository(head, index, untracked, commits, target) ==
    [head |-> head, index |-> index, untracked |-> untracked,
     commits |-> commits, target |-> target]

\* A slip: untracked files are not looked for.
_check_repo_state_without_untracked(repository, worktree) ==
    IF repository.index # repository.head THEN MsgStaged
    ELSE IF worktree # repository.index THEN MsgUnstaged
    ELSE None

\* _check_repo_state: HEAD against the index, the untracked files, the
\* index against the working tree.
_check_repo_state(repository, worktree) ==
    IF repository.index # repository.head THEN MsgStaged
    ELSE IF repository.untracked THEN MsgUntracked
    ELSE IF worktree # repository.index THEN MsgUnstaged
    ELSE None

\* shutil.copytree and _clean_repo: the file in the working tree of the
\* copy after git reset --hard and git clean -dfx.
_clean_repo(repository) == repository.head

\* git commit has nothing to commit: the branch exists and the tree to
\* commit is the tree at its tip.
nothing_to_commit(repository, tree) ==
    repository.commits > 0 /\ repository.target = tree

\* git commit on the target branch of the copy.
git_commit(repository, tree) ==
    [repository EXCEPT !.commits = repository.commits + 1, !.target = tree]

\* _sanitize_repo._git_commit_on_branch: the error of git is not caught.
_sanitize_repo_git_commit_on_branch(repository, tree) ==
    IF nothing_to_commit(repository, tree)
    THEN [error |-> "GitCommandError", copy |-> repository]
    ELSE [error |-> None, copy |-> git_commit(repository, tree)]

\* A slip: the commit is made with --allow-empty.
_git_commit_on_branch_allow_empty(repository, tree) ==
    [error |-> None, copy |-> git_commit(repository, tree)]

\* _gitutils._git_commit_on_branch: EmptyCommitError when git has nothing
\* to commit.
_git_commit_on_branch(repository, tree) ==
    IF nothing_to_commit(repository, tree)
    THEN [error |-> "EmptyCommitError", copy |-> repository]
    ELSE [error |-> None, copy |-> git_commit(repository, tree)]

\* _git_fetch: the target branch of the destination becomes that of the
\* copy.
_git_fetch(copy, repository) ==
    [repository EXCEPT !.commits = copy.commits, !.target = copy.target]

\* A slip: the repository itself is reset, cleaned and sanitized.
_sanitize_to_target_branch_in_place(repository, worktree, file_relpaths) ==
    LET tree == _sanitize_files(repository.head, file_relpaths)
        commit == _sanitize_repo_git_commit_on_branch(repository, tree)
    IN  IF commit.error # None
        THEN [error |-> commit.error, worktree |-> tree,
              repo |-> [repository EXCEPT !.index = repository.head,
                                          !.untracked = FALSE]]
        ELSE [error |-> None, worktree |-> tree,
              repo |-> [commit.copy EXCEPT !.index = repository.head,
                                           !.untracked = FALSE]]

\* _sanitize_repo._sanitize_to_target_branch: the copy is cleaned and
\* sanitized, the commit is made in the copy; the fetch follows the commit.
_sanitize_to_target_branch(repository, worktree, file_relpaths) ==
    LET tree == _sanitize_files(_clean_repo(repository), file_relpaths)
        commit == _sanitize_repo_git_commit_on_branch(repository, tree)
    IN  IF commit.error # None
        THEN [error |-> commit.error, worktree |-> worktree,
              repo |-> repository]
        ELSE [error |-> None, worktree |-> worktree,
              repo |-> _git_fetch(commit.copy, repository)]

\* _sanitize_repo.sanitize_to_target_branch(repo_root, branch, message), as
\* sanitizer.py calls it: the copy is cleaned, its dirty files are
\* discovered and checked; with errors these are returned and nothing is
\* committed; else the files are sanitized, the commit is made with
\* _gitutils._git_commit_on_branch and, after it, the branch is fetched.
sanitize_to_target_branch(repository) ==
    LET tree0 == _clean_repo(repository)
        file_relpaths == _discover_dirty_files(tree0)
        checked == check_syntax(split(tree0.text))
        tree == _sanitize_files(tree0, file_relpaths)
        commit == _git_commit_on_branch(repository, tree)
    IN  IF file_relpaths # <<>> /\ checked.raised
        THEN [errors |-> checked.errors, error |-> None, repo |-> repository,
              steps |-> <<"copytree", "_clean_repo", "check_syntax">>]
        ELSE IF commit.error # None
        THEN [errors |-> <<>>, error |-> commit.error, repo |-> repository,
              steps |-> <<"copytree", "_clean_repo", "check_syntax",
                          "sanitize_files", "_git_commit_on_branch">>]
        ELSE [errors |-> <<>>, error |-> None,
              repo |-> _git_fetch(commit.copy, repository),
              steps |-> <<"copytree", "_clean_repo", "check_syntax",
                          "sanitize_files", "_git_commit_on_branch",
                          "_git_fetch">>]

\* Another version of the file, for the HEAD commit: an accepted file.
CommittedLines == << <<"x">>, <<"/", START>>, <<"x">>, <<"/", END>> >>

MaxFileLines == 3

FileLines ==
    { <<>>, <<"x">>, <<"/", "y">>, <<"/", START>>, <<"/", REPLACE>>,
      <<"/", END>>, <<SHRED>> }

RepoFiles == UNION { [1..n -> FileLines] : n \in 1..MaxFileLines }

InitFiles ==
    /\ lines \in RepoFiles
    /\ pc = "call"
    /\ shred_errors = <<>>
    /\ errors = <<>>
    /\ disk = File(join(lines))
    /\ outfile = NoFile
    /\ ret = ReturnNone
    /\ args = None
    /\ \E head \in {File(join(lines)), File(join(CommittedLines))} :
       \E index \in {head, File(join(lines))} :
       \E untracked \in BOOLEAN :
       \E tip \in {<<0, Missing>>, <<1, head>>,
                   <<1, _sanitize_files(head, _parse_file_list)>>} :
          repo = Repository(head, index, untracked, tip[1], tip[2])

call_sanitize_file ==
    /\ pc = "call"
    /\ pc' = "sanitize_file"
    /\ disk' = sanitize_file(disk).disk
    /\ ret' = sanitize_file(disk).ret
    /\ UNCHANGED <<lines, shred_errors, errors, outfile, args, repo>>

call_strip_file ==
    /\ pc = "call"
    /\ pc' = "strip_file"
    /\ disk' = strip_file(disk).disk
    /\ ret' = strip_file(disk).ret
    /\ UNCHANGED <<lines, shred_errors, errors, outfile, args, repo>>

call_sanitize_text ==
    /\ pc = "call"
    /\ pc' = "sanitize_text"
    /\ ret' = sanitize_text(disk.text)
    /\ UNCHANGED <<lines, shred_errors, errors, disk, outfile, args, repo>>

call_strip_text ==
    /\ pc = "call"
    /\ pc' = "strip_text"
    /\ ret' = strip_text(disk.text)
    /\ UNCHANGED <<lines, shred_errors, errors, disk, outfile, args, repo>>

\* file_is_dirty(relpath, repo_root) for the file, with the encoding that
\* was inferred for it.
call_file_is_dirty ==
    /\ pc = "call"
    /\ pc' = "file_is_dirty"
    /\ \E encoding \in Encodings :
          /\ args' = RelativePath(encoding)
          /\ ret' = [kind |-> "bool",
                     value |-> file_is_dirty(RelativePath(encoding), disk).ret,
                     read |-> file_is_dirty(RelativePath(encoding), disk).read]
    /\ UNCHANGED <<lines, shred_errors, errors, disk, outfile, repo>>

\* _sanitize_files(repo_root, file_relpaths) on the working tree, with the
\* listed or the discovered files.
call_sanitize_files ==
    /\ pc = "call"
    /\ pc' = "sanitize_files"
    /\ \E discover_files \in BOOLEAN :
          /\ args' = [discover_files |-> discover_files]
          /\ disk' = _sanitize_files(disk,
                        IF discover_files THEN _discover_dirty_files(disk)
                        ELSE _parse_file_list)
    /\ ret' = ReturnNone
    /\ UNCHANGED <<lines, shred_errors, errors, outfile, repo>>

\* SanitizeRepo._sanitize_repo.  With a target branch the files are
\* sanitized in a copy of the repository, committed on the branch there and
\* the branch is fetched; an error of git ends the command.
call_sanitize_repo ==
    /\ pc = "call"
    /\ pc' = "sanitize_repo"
    /\ \E force, discover_files, no_commit \in BOOLEAN :
          LET message == _check_repo_state(repo, disk)
              file_relpaths == IF discover_files
                               THEN _discover_dirty_files(disk)
                               ELSE _parse_file_list
              fetched == _sanitize_to_target_branch(repo, disk, file_relpaths)
          IN  /\ args' = [force |-> force, discover_files |-> discover_files,
                          no_commit |-> no_commit]
              /\ IF message # None /\ ~force
                 THEN /\ ret' = Result("ERROR", message)
                      /\ UNCHANGED <<disk, repo>>
                 ELSE IF no_commit
                 THEN /\ ret' = Result("SUCCESS", MsgSuccess)
                      /\ disk' = _sanitize_files(disk, file_relpaths)
                      /\ UNCHANGED repo
                 ELSE /\ ret' = IF fetched.error # None
                                THEN [kind |-> fetched.error]
                                ELSE Result("SUCCESS", MsgSuccess)
                      /\ disk' = fetched.worktree
                      /\ repo' = fetched.repo
    /\ UNCHANGED <<lines, shred_errors, errors, outfile>>

\* SanitizeRepo._sanitize_to_target_branch of sanitizer.py, without a pull
\* request branch: errors of the files become a _SanitizeError, an
\* EmptyCommitError becomes the message that nothing will change.
call_sanitize_to_target_branch ==
    /\ pc = "call"
    /\ pc' = "sanitize_to_target_branch"
    /\ LET done == sanitize_to_target_branch(repo)
       IN  /\ ret' = IF done.errors # <<>>
                     THEN [kind |-> "_SanitizeError", errors |-> done.errors,
                           steps |-> done.steps]
                     ELSE [kind |-> "str",
                           msg |-> IF done.error = "EmptyCommitError"
                                   THEN MsgNoDiff ELSE MsgSuccessBranch,
                           steps |-> done.steps]
           /\ repo' = done.repo
    /\ UNCHANGED <<lines, shred_errors, errors, disk, outfile, args>>

NextFiles ==
    \/ call_sanitize_file
    \/ call_strip_file
    \/ call_sanitize_text
    \/ call_strip_text
    \/ call_file_is_dirty
    \/ call_sanitize_files
    \/ call_sanitize_repo
    \/ call_sanitize_to_target_branch

SpecFiles == InitFiles /\ [][NextFiles]_vars

(***************************************************************************)
(* Vocabulary of the properties.  These are stated on the file and on the  *)
(* errors check_syntax raised, without the loop variables of the scan.     *)
(***************************************************************************)
Range(f) == {f[i] : i \in DOMAIN f}

Called == pc # "call"
Scanned == pc \in {"raised", "returned"}

marker_at(i) == contained_marker(lines[i])

Reported(line_number, msg) == LineError(line_number, msg) \in Range(errors)

\* No line holds any of the four tokens.
NoTokens == \A i \in DOMAIN lines : \A k \in DOMAIN Markers :
                ~token_in(Markers[k], lines[i])

\* The lines whose detected marker is START, REPLACE or END.
BlockMarkerLines == {i \in DOMAIN lines : marker_at(i) \in {START, REPLACE, END}}

\* The detected marker of the last START, REPLACE or END line before line
\* i; END when there is none (nothing is open at the start of the file).
LastMarkerBefore(i) ==
    LET before == {j \in BlockMarkerLines : j < i}
    IN  IF before = {} THEN END ELSE marker_at(SetMax(before))

\* The text before the first occurrence of token on the line.
TextBefore(line, token) ==
    LET k == CHOOSE k \in DOMAIN line :
                 /\ line[k] = token
                 /\ \A j \in 1..(k - 1) : line[j] # token
    IN  [j \in 1..(k - 1) |-> line[j]]

\* The START line that opened the block line i lies in: the last START
\* line before i, 0 when there is none.
StartLineOf(i) ==
    LET starts == {j \in 1..(i - 1) : marker_at(j) = START}
    IN  IF starts = {} THEN 0 ELSE SetMax(starts)

\* The detected markers of the file, markerless lines left out.
MarkerSeq ==
    LET ms == [i \in DOMAIN lines |-> marker_at(i)]
        Marked(m) == m # None
    IN  SelectSeq(ms, Marked)

\* ms is one or more of: START, optional REPLACE, END.
RECURSIVE IsBlocks(_)
IsBlocks(ms) ==
    /\ Len(ms) >= 2
    /\ ms[1] = START
    /\ \/ /\ ms[2] = END
          /\ Len(ms) = 2 \/ IsBlocks(SubSeq(ms, 3, Len(ms)))
       \/ /\ Len(ms) >= 3
          /\ ms[2] = REPLACE
          /\ ms[3] = END
          /\ Len(ms) = 3 \/ IsBlocks(SubSeq(ms, 4, Len(ms)))

\* (a) a single SHRED on line 1 and no marker on any other line.
ShredFile ==
    /\ Len(lines) >= 1
    /\ marker_at(1) = SHRED
    /\ \A i \in 2..Len(lines) : marker_at(i) = None

\* Line i is a REPLACE line, a line between REPLACE and END, or an END line.
PrefixedLine(i) ==
    \/ marker_at(i) \in {REPLACE, END}
    \/ marker_at(i) = None /\ LastMarkerBefore(i) = REPLACE

\* (b) blocks, each with its prefix on the lines that must carry it.
BlocksFile ==
    /\ IsBlocks(MarkerSeq)
    /\ \A i \in DOMAIN lines :
          PrefixedLine(i) =>
              startswith(lines[i], TextBefore(lines[StartLineOf(i)], START))

\* C1: check_syntax accepts a file exactly when its detected markers are a
\* single SHRED on line 1, or one or more blocks START, optional REPLACE,
\* END in which the REPLACE line, the lines between REPLACE and END and the
\* END line begin with the text before the START token of the block.
C1_AcceptsExactlyTheGrammar ==
    Called => (pc = "returned" <=> (ShredFile \/ BlocksFile))

\* An accepted file with a prefixed block that has a replacement line.
C1_Witness ==
    /\ pc = "returned"
    /\ \E i \in DOMAIN lines :
          /\ marker_at(i) = None
          /\ LastMarkerBefore(i) = REPLACE
          /\ TextBefore(lines[StartLineOf(i)], START) # <<>>

\* C2: a file none of whose lines holds a marker token, the empty file
\* included, gets exactly one error, "There are no markers in the file".
\* (The empty string "" iterates as the empty sequence of lines.)
C2_NoTokensOneError ==
    (Called /\ NoTokens) =>
        (pc = "raised" /\ errors = <<FileError(MsgNoMarkers)>>)

\* A file of several markerless lines was checked.
C2_Witness ==
    /\ pc = "raised"
    /\ NoTokens
    /\ Len(lines) >= 2
    /\ errors = <<FileError(MsgNoMarkers)>>

\* C3: when the shred check finds nothing, "There are no markers in the
\* file" is reported if and only if no line has a detected marker.
C3_NoMarkersIffNoMarker ==
    Scanned =>
        (FileError(MsgNoMarkers) \in Range(errors)
            <=> \A i \in DOMAIN lines : marker_at(i) = None)

\* C4: in the block scan a START line is reported with "START block must
\* begin file or follow an END block" at its line number if and only if the
\* last marker before it is not END.
C4_StartReportedIffOpen ==
    Scanned =>
        \A i \in DOMAIN lines :
            marker_at(i) = START =>
                (Reported(i, MsgStart) <=> LastMarkerBefore(i) # END)

\* A START inside an open block was reported, one after a closed block not.
C4_Witness ==
    /\ Scanned
    /\ \E i \in DOMAIN lines :
          marker_at(i) = START /\ Reported(i, MsgStart)
    /\ \E i \in DOMAIN lines :
          /\ marker_at(i) = START
          /\ BlockMarkerLines \cap (1..(i - 1)) # {}
          /\ ~Reported(i, MsgStart)

\* C5: in the block scan a REPLACE line is reported with "REPLACE-WITH
\* block must follow START block" at its line number if and only if the
\* last marker before it is not START.
C5_ReplaceReportedIffNotAfterStart ==
    Scanned =>
        \A i \in DOMAIN lines :
            marker_at(i) = REPLACE =>
                (Reported(i, MsgReplace) <=> LastMarkerBefore(i) # START)

\* A second REPLACE in one block was reported, the first was not.
C5_Witness ==
    /\ Scanned
    /\ \E i, j \in DOMAIN lines :
          /\ i < j
          /\ marker_at(i) = REPLACE /\ ~Reported(i, MsgReplace)
          /\ marker_at(j) = REPLACE /\ Reported(j, MsgReplace)
          /\ LastMarkerBefore(j) = REPLACE

\* C6: in the block scan an END line is reported with "END block must
\* follow START or REPLACE block" at its line number if and only if no
\* block is open before it: the last marker is END or there is none.
C6_EndReportedIffNotOpen ==
    Scanned =>
        \A i \in DOMAIN lines :
            marker_at(i) = END =>
                (Reported(i, MsgEnd)
                    <=> LastMarkerBefore(i) \notin {START, REPLACE})

\* An END after a closed block was reported, the END closing it was not.
C6_Witness ==
    /\ Scanned
    /\ \E i, j \in DOMAIN lines :
          /\ i < j
          /\ marker_at(i) = END /\ ~Reported(i, MsgEnd)
          /\ marker_at(j) = END /\ Reported(j, MsgEnd)

\* C7: when the shred check finds nothing, "Final block must be an END
\* block" is reported if and only if the last START, REPLACE or END line of
\* the file is not an END line; no accepted file ends with an open block.
C7_FinalReportedIffOpenAtEof ==
    Scanned =>
        LET open == /\ BlockMarkerLines # {}
                    /\ marker_at(SetMax(BlockMarkerLines)) # END
        IN  /\ FileError(MsgFinal) \in Range(errors) <=> open
            /\ pc = "returned" => ~open

\* A file that ends inside a replacement segment was reported.
C7_Witness ==
    /\ pc = "raised"
    /\ FileError(MsgFinal) \in Range(errors)
    /\ BlockMarkerLines # {}
    /\ marker_at(SetMax(BlockMarkerLines)) = REPLACE

\* Line i is an END line or a markerless line after a REPLACE, in a block
\* that a START line opened and that no END line has closed before i.
InOpenBlock(i) ==
    LET s == StartLineOf(i)
    IN  /\ s # 0
        /\ \A j \in (s + 1)..(i - 1) : marker_at(j) # END
        /\ \/ marker_at(i) = END
           \/ /\ marker_at(i) = None
              /\ \E j \in (s + 1)..(i - 1) : marker_at(j) = REPLACE

\* C8, as stated: "Missing prefix" is reported for a replacement-segment
\* line or an END line exactly when the line, left-trimmed, does not begin
\* with the trimmed text before the START token.
C8_TrimmedPrefix ==
    Scanned =>
        \A i \in DOMAIN lines :
            InOpenBlock(i) =>
                (Reported(i, MsgPrefix)
                    <=> ~startswith(lstrip(lines[i]),
                            strip(TextBefore(lines[StartLineOf(i)], START))))

\* C8, amended: the prefix is the text before the first START token of the
\* START line as it stands, and "Missing prefix" is reported for a
\* replacement-segment line or an END line exactly when the line as it
\* stands does not begin with it.
C8_VerbatimPrefix ==
    Scanned =>
        \A i \in DOMAIN lines :
            InOpenBlock(i) =>
                (Reported(i, MsgPrefix)
                    <=> ~startswith(lines[i],
                            TextBefore(lines[StartLineOf(i)], START)))

\* A block with an indented START line and an END line with the same
\* comment token, not indented: "Missing prefix" was reported.
C8_Witness ==
    /\ pc = "raised"
    /\ \E i \in DOMAIN lines :
          /\ InOpenBlock(i)
          /\ marker_at(i) = END
          /\ Head(TextBefore(lines[StartLineOf(i)], START)) = " "
          /\ startswith(lstrip(lines[i]),
                 strip(TextBefore(lines[StartLineOf(i)], START)))
          /\ Reported(i, MsgPrefix)

\* C9: when _check_shred_syntax finds a violation, check_syntax raises with
\* exactly the shred errors: no block-order, prefix, "Final block" or "no
\* markers" error.
C9_ShredErrorsAlone ==
    (Called /\ shred_errors # <<>>) =>
        /\ pc = "shred_raised"
        /\ errors = shred_errors
        /\ \A e \in Range(errors) : e.msg \in {MsgShredLine, MsgAfterShred}

\* Raised on shred errors for a file whose block is also left open.
C9_Witness ==
    /\ pc = "shred_raised"
    /\ Len(lines) >= 2
    /\ marker_at(1) = SHRED
    /\ marker_at(Len(lines)) \in {START, REPLACE}

\* The errors _check_shred_syntax is to report.
ShredViolations ==
    {LineError(i, MsgShredLine) :
        i \in {j \in 2..Len(lines) : marker_at(j) = SHRED}}
    \cup
    {LineError(i, MsgAfterShred) :
        i \in {j \in DOMAIN lines :
                  marker_at(1) = SHRED /\ marker_at(j) \in {START, REPLACE, END}}}

\* C10: _check_shred_syntax reports one error for every line after line 1
\* whose detected marker is SHRED and, when line 1's marker is SHRED, one
\* for every START, REPLACE or END line; nothing else, in line order, and
\* the empty list for the empty file.
C10_ShredErrors ==
    Called =>
        /\ Range(shred_errors) = ShredViolations
        /\ Len(shred_errors) = Cardinality(ShredViolations)
        /\ \A a, b \in DOMAIN shred_errors :
              a < b => shred_errors[a].line < shred_errors[b].line
        /\ lines = <<>> => shred_errors = <<>>

\* Both kinds of shred error were reported for one file.
C10_Witness ==
    /\ Called
    /\ \E e \in Range(shred_errors) : e.msg = MsgShredLine
    /\ \E e \in Range(shred_errors) : e.msg = MsgAfterShred

(***************************************************************************)
(* Vocabulary of the properties of the transforms.                         *)
(***************************************************************************)

\* check_syntax accepts the lines.
Valid == ~check_syntax(lines).raised

\* The detected marker of line 1 is SHRED.
StartsWithShred == Len(lines) >= 1 /\ marker_at(1) = SHRED

HasToken(line) == \E k \in DOMAIN Markers : token_in(Markers[k], line)

\* Line i is a markerless line outside every block, in the instructor
\* segment of a block, in the replacement segment of a block.
Outside(i) == marker_at(i) = None /\ LastMarkerBefore(i) = END
Instructor(i) == marker_at(i) = None /\ LastMarkerBefore(i) = START
Replacement(i) == marker_at(i) = None /\ LastMarkerBefore(i) = REPLACE

\* The prefix of the block line i lies in.
BlockPrefix(i) == TextBefore(lines[StartLineOf(i)], START)

\* line with the prefix p at its start removed: p + "code" gives "code".
WithoutPrefix(line, p) ==
    CHOOSE r \in {SubSeq(line, k, Len(line)) : k \in 1..(Len(line) + 1)} :
        p \o r = line

\* The sequence image[i] of the lines i <= n of S, in the order of the file.
RECURSIVE Pick(_, _, _)
Pick(n, S, image) ==
    IF n = 0 THEN <<>>
    ELSE Pick(n - 1, S, image) \o (IF n \in S THEN <<image[n]>> ELSE <<>>)

\* C14: _sanitize yields no line whose detected marker is START, REPLACE or
\* END, whatever the input; and for an accepted input that does not start
\* with a SHRED marker no yielded line holds any marker token.
C14_NoMarkerInSanitized ==
    pc = "sanitized" =>
        /\ \A k \in DOMAIN ret :
              contained_marker(ret[k]) \notin {START, REPLACE, END}
        /\ (Valid /\ ~StartsWithShred) =>
              \A k \in DOMAIN ret : ~HasToken(ret[k])

\* An accepted file with a replacement line and a SHRED token on its START
\* line was sanitized to a non-empty output.
C14_Witness ==
    /\ pc = "sanitized"
    /\ Valid
    /\ ret # <<>>
    /\ \E i \in DOMAIN lines : Replacement(i)
    /\ \E i \in DOMAIN lines : token_in(SHRED, lines[i])

\* C15: for an accepted input with no REPLACE line and no SHRED line the
\* output of _sanitize is the lines outside every START..END span, unchanged
\* and in order.
C15_SanitizeWithoutReplace ==
    (/\ pc = "sanitized"
     /\ Valid
     /\ \A i \in DOMAIN lines : marker_at(i) \notin {REPLACE, SHRED})
        => ret = Pick(Len(lines), {i \in DOMAIN lines : Outside(i)}, lines)

\* A block with an instructor line, between two lines that are kept.
C15_Witness ==
    /\ pc = "sanitized"
    /\ Valid
    /\ \A i \in DOMAIN lines : marker_at(i) \notin {REPLACE, SHRED}
    /\ \E i, j, k \in DOMAIN lines :
          i < j /\ j < k /\ Outside(i) /\ Instructor(j) /\ Outside(k)
    /\ Len(ret) = 2

\* The example of the documentation: "// START", "secret", "// REPLACE-WITH",
\* "// public", "// END".
ExampleFile ==
    << <<"/", " ", START>>, <<"x">>, <<"/", " ", REPLACE>>,
       <<"/", " ", "y">>, <<"/", " ", END>> >>

Unprefixed(i) == WithoutPrefix(lines[i], BlockPrefix(i))

\* C16: for an accepted input with blocks, _sanitize yields the replacement
\* lines with the block's prefix removed and no instructor line, _strip
\* yields the instructor lines unchanged and no replacement line (both with
\* the lines outside the blocks); the example sanitizes to ["public"] and
\* strips to ["secret"].
C16_SanitizeAndStripOfBlocks ==
    /\ (pc = "sanitized" /\ Valid /\ ~StartsWithShred) =>
          ret = Pick(Len(lines), {i \in DOMAIN lines : Outside(i) \/ Replacement(i)},
                     [i \in DOMAIN lines |->
                         IF Replacement(i) THEN Unprefixed(i) ELSE lines[i]])
    /\ (pc = "stripped" /\ Valid /\ ~StartsWithShred) =>
          ret = Pick(Len(lines), {i \in DOMAIN lines : Outside(i) \/ Instructor(i)},
                     lines)
    /\ (pc = "sanitized" /\ lines = ExampleFile) => ret = << <<"y">> >>
    /\ (pc = "stripped" /\ lines = ExampleFile) => ret = << <<"x">> >>

\* The example was sanitized to ["public"].
C16_Witness ==
    /\ pc = "sanitized"
    /\ lines = ExampleFile
    /\ Valid
    /\ ret = << <<"y">> >>

\* is_marked: some line has a detected marker.
IsMarked(ls) == \E i \in DOMAIN ls : contained_marker(ls[i]) # None

\* C17: for every input, accepted or not, no line of the output of _strip
\* holds a marker token, and stripping the output again changes nothing.
C17_StripRemovesAllMarkup ==
    pc = "stripped" =>
        /\ \A k \in DOMAIN ret : ~HasToken(ret[k])
        /\ ~IsMarked(ret)
        /\ _strip(ret) = ret

\* A rejected file with a SHRED line after line 1 and a REPLACE line was
\* stripped to a non-empty output.
C17_Witness ==
    /\ pc = "stripped"
    /\ ~Valid
    /\ ret # <<>>
    /\ \E i \in DOMAIN lines : i > 1 /\ marker_at(i) = SHRED
    /\ \E i \in DOMAIN lines : marker_at(i) = REPLACE

(***************************************************************************)
(* Properties of the lexer and of the tokens.                              *)
(***************************************************************************)

\* C11: in a file check_syntax accepts, the SHRED token occurs on line 1
\* only, and when it occurs no START, REPLACE or END token occurs on any
\* line.
C11_ShredTokenAloneOnLine1 ==
    pc = "returned" =>
        LET shredded == {i \in DOMAIN lines : token_in(SHRED, lines[i])}
        IN  /\ shredded \subseteq {1}
            /\ shredded # {} =>
                  \A i \in DOMAIN lines :
                      \A m \in {START, REPLACE, END} : ~token_in(m, lines[i])

\* token occurs in s: s is some text, the token, some text.
Occurs(token, s) ==
    \E k \in 1..Len(s) :
        /\ k + Len(token) - 1 <= Len(s)
        /\ \A j \in 1..Len(token) : s[k + j - 1] = token[j]

\* The line has no part of a token that is not a whole token.
WholeTokens(line) == \A i \in DOMAIN line : line[i] \notin {"stem", "END"}

\* C12: contained_marker returns None exactly when none of the four tokens
\* is a substring of the line; otherwise it returns the first marker, in
\* the order START, REPLACE, END, SHRED, whose token is a substring of the
\* line.  No token is a substring of another token.  (On a line of whole
\* tokens and other characters this is the first marker among its symbols.)
C12_FirstContainedMarker ==
    /\ \A a, b \in DOMAIN Markers :
          a # b => ~Occurs(value(Markers[a]), value(Markers[b]))
    /\ pc = "lexed" =>
          LET s == text(lines[1])
              found == {k \in DOMAIN Markers : Occurs(value(Markers[k]), s)}
          IN  /\ ret = None <=> found = {}
              /\ found # {} =>
                    /\ ret = Markers[SetMin(found)]
                    /\ Occurs(value(ret), s)
              /\ WholeTokens(lines[1]) => ret = contained_marker(lines[1])

\* A line with the tokens SHRED, END and REPLACE, in this order, was lexed
\* as REPLACE.
C12_Witness ==
    /\ pc = "lexed"
    /\ lines[1] = <<SHRED, END, REPLACE>>
    /\ ret = REPLACE

(***************************************************************************)
(* Properties of the file and repository operations.                       *)
(***************************************************************************)

\* C13: sanitizing a valid file whose line 1 has the SHRED marker gives the
\* delete signal and no text: sanitize_file removes the file and returns no
\* text, and sanitize_text returns no sanitized text for the content.
C13_ShredFileYieldsNoText ==
    (Valid /\ StartsWithShred) =>
        /\ pc = "sanitize_file" => ~disk.exists /\ ret.kind = "None"
        /\ pc = "sanitize_text" => ret.kind # "text"

\* C18: stripping a valid file whose line 1 has the SHRED marker returns
\* all lines of the file but line 1, unchanged and in order, and the file
\* still exists, with its content, afterwards.
C18_StripKeepsShredFile ==
    (pc = "strip_file" /\ Valid /\ StartsWithShred) =>
        /\ ret.kind = "text"
        /\ ret.text = join(Tail(lines))
        /\ disk = File(join(lines))

\* A file of a SHRED line and two more lines was stripped.
C18_Witness ==
    /\ pc = "strip_file"
    /\ lines = << <<SHRED>>, <<"x">>, <<"/", "y">> >>
    /\ ret = ReturnText(<<"x", NL, "/", "y">>)
    /\ disk.exists

\* C19: a file for which check_syntax reports an error is not transformed
\* and not deleted: sanitize_text and strip_text give no text for it, and
\* _sanitize_files, over the listed or the discovered files, leaves it on
\* disk as it was.
C19_InvalidFileUntouched ==
    ~Valid =>
        /\ pc \in {"sanitize_text", "strip_text"} => ret.kind = "PlugError"
        /\ pc = "sanitize_files" => disk = File(join(lines))

\* C20: for a repository with a marked file that has a syntax error, the
\* sanitize-repo command, once the state of the repository lets it go on,
\* returns a result with status ERROR and the text of a syntax error, with
\* --no-commit and with a target branch.
C20_InvalidFileGivesError ==
    (/\ pc = "sanitize_repo"
     /\ IsMarked(lines)
     /\ ~Valid
     /\ repo.head = File(join(lines))
     /\ (args.force \/ (repo.index = repo.head /\ ~repo.untracked))) =>
        /\ ret.kind = "Result"
        /\ ret.status = "ERROR"
        /\ \E e \in Range(check_syntax(lines).errors) : ret.msg = e.msg

(***************************************************************************)
(* Properties of the scan: the prefix after a block, the order of errors.  *)
(***************************************************************************)

\* Line j is a REPLACE or END line with no block open before it.
StrayMarker(j) ==
    marker_at(j) \in {REPLACE, END} /\ LastMarkerBefore(j) = END

\* Line i is a stray REPLACE or END line, or a markerless line that follows
\* a stray REPLACE line.
AfterClosedBlock(i) ==
    \/ StrayMarker(i)
    \/ /\ marker_at(i) = None
       /\ LastMarkerBefore(i) = REPLACE
       /\ StrayMarker(SetMax({j \in BlockMarkerLines : j < i}))

\* C26: the prefix is empty again after an END line, so a stray REPLACE or
\* END line after a closed block, and the lines after such a REPLACE line,
\* are never reported as "Missing prefix".
C26_PrefixClearedAfterEnd ==
    Scanned =>
        \A i \in DOMAIN lines :
            AfterClosedBlock(i) => ~Reported(i, MsgPrefix)

\* The error the branch of line i reports when its marker is out of order;
\* None when the marker of line i is in order or line i has no marker.
OrderMsg(i) ==
    IF marker_at(i) = START /\ LastMarkerBefore(i) # END THEN MsgStart
    ELSE IF marker_at(i) = REPLACE /\ LastMarkerBefore(i) # START
    THEN MsgReplace
    ELSE IF marker_at(i) = END /\ LastMarkerBefore(i) \notin {START, REPLACE}
    THEN MsgEnd
    ELSE None

\* Line i must begin with the text before the START token of the last
\* START line and does not.
PrefixViolation(i) ==
    /\ PrefixedLine(i)
    /\ StartLineOf(i) # 0
    /\ ~startswith(lines[i], BlockPrefix(i))

\* The error e stands before the error f in the list of errors.
Before(e, f) ==
    \E a, b \in DOMAIN errors : a < b /\ errors[a] = e /\ errors[b] = f

\* C27: check_syntax reports all violations of the file together: every
\* line with a marker out of order gets its order error, a line that
\* breaks both the order and the prefix rule gets both errors, the order
\* error first; a line has at most one "Missing prefix" error; the errors
\* with a line are in the order of the lines; the errors of the file,
\* "Final block must be an END block" and then "There are no markers in
\* the file", come after all errors with a line.
C27_AllErrorsInOrder ==
    Scanned =>
        /\ \A i \in DOMAIN lines :
              /\ OrderMsg(i) # None => Reported(i, OrderMsg(i))
              /\ (OrderMsg(i) # None /\ PrefixViolation(i)) =>
                    Before(LineError(i, OrderMsg(i)), LineError(i, MsgPrefix))
              /\ Cardinality({k \in DOMAIN errors :
                                 errors[k] = LineError(i, MsgPrefix)}) <= 1
        /\ \A a, b \in DOMAIN errors :
              a < b =>
                  /\ errors[b].line # 0 =>
                        /\ errors[a].line # 0
                        /\ errors[a].line <= errors[b].line
                  /\ errors[a] = FileError(MsgNoMarkers) => FALSE
        /\ \A k \in DOMAIN errors :
              errors[k].line = 0 =>
                  errors[k] \in {FileError(MsgFinal), FileError(MsgNoMarkers)}

\* A REPLACE line after a REPLACE line, without the prefix of the block:
\* both errors of the line and the error of the file were reported, after
\* an error on an earlier line.
C27_Witness ==
    /\ pc = "raised"
    /\ \E i \in DOMAIN lines :
          /\ OrderMsg(i) = MsgReplace
          /\ PrefixViolation(i)
          /\ Before(LineError(i, MsgReplace), LineError(i, MsgPrefix))
          /\ Before(LineError(i, MsgPrefix), FileError(MsgFinal))
          /\ \E j \in 1..(i - 1) : \E e \in Range(errors) : e.line = j

(***************************************************************************)
(* Properties of the transforms: the pass in Strip mode, selection of the  *)
(* lines, truncation.                                                      *)
(***************************************************************************)

\* One line of the single pass in Strip mode as it is specified: START
\* sets keep and is dropped, REPLACE clears keep and is dropped, END sets
\* keep and is dropped, any other line is emitted unchanged when keep is
\* set.
StripModeLine(st, line) ==
    LET marker == contained_marker(line)
    IN  IF marker = START THEN [keep |-> TRUE, out |-> st.out]
        ELSE IF marker = REPLACE THEN [keep |-> FALSE, out |-> st.out]
        ELSE IF marker = END THEN [keep |-> TRUE, out |-> st.out]
        ELSE [keep |-> st.keep,
              out |-> IF st.keep THEN Append(st.out, line) ELSE st.out]

RECURSIVE StripModePass(_, _)
StripModePass(ls, n) ==
    IF n = 0 THEN [keep |-> TRUE, out |-> <<>>]
    ELSE StripModeLine(StripModePass(ls, n - 1), ls[n])

StripMode(ls) == StripModePass(ls, Len(ls)).out

\* C28: for an accepted input that does not start with a SHRED marker,
\* _strip yields exactly the output of the specified single pass in Strip
\* mode.
C28_StripIsStripMode ==
    (pc = "stripped" /\ Valid /\ ~StartsWithShred) => ret = StripMode(lines)

\* An accepted file with a REPLACE line, an instructor line and a
\* replacement line was stripped, to the output of the specified pass.
C28_Witness ==
    /\ pc = "stripped"
    /\ Valid
    /\ ~StartsWithShred
    /\ \E i, j \in DOMAIN lines : Instructor(i) /\ Replacement(j)
    /\ ret = StripMode(lines)
    /\ ret # <<>>

\* out is line, or line without some characters at its start.
ComesFrom(out, line) ==
    \E k \in 0..Len(line) : out = SubSeq(line, k + 1, Len(line))

\* The numbers of the lines of S, in the order of the file.
Selected(S) == Pick(Len(lines), S, [i \in DOMAIN lines |-> i])

\* C29: for every input, the output of _sanitize and of _strip is a
\* selection of the input lines in the order of the input: there are
\* distinct input lines, as many as output lines, from which the output
\* lines come one by one in this order (a line of _strip as it stands, a
\* line of _sanitize as it stands or cut at its start); and for an accepted
\* input every line outside the blocks is among them and is emitted
\* unchanged.
C29_OutputSelectsInput ==
    pc \in {"sanitized", "stripped"} =>
        \E S \in SUBSET DOMAIN lines :
            LET sel == Selected(S)
            IN  /\ Len(ret) = Len(sel)
                /\ \A k \in DOMAIN ret :
                      IF pc = "stripped" THEN ret[k] = lines[sel[k]]
                      ELSE ComesFrom(ret[k], lines[sel[k]])
                /\ Valid =>
                      \A i \in DOMAIN lines :
                          Outside(i) =>
                              \E k \in DOMAIN ret :
                                  sel[k] = i /\ ret[k] = lines[i]

\* An accepted file with a line before its block and a replacement line was
\* sanitized; the line outside is in the output, the replacement line is in
\* it without its prefix.
C29_Witness ==
    /\ pc = "sanitized"
    /\ Valid
    /\ \E i, j \in DOMAIN lines :
          /\ i < j
          /\ Outside(i) /\ Replacement(j)
          /\ ret = <<lines[i], Unprefixed(j)>>
          /\ Unprefixed(j) # lines[j]

\* _sanitize emits line i: it has no marker and keep is set when the loop
\* comes to it.
Emitted(i) == marker_at(i) = None /\ sanitize_loop(lines, i - 1).keep

\* The number of characters _sanitize cuts from line i.
CutAt(i) == sanitize_loop(lines, i - 1).prefix_length

\* C30: in an accepted input, a line that _sanitize emits cut (keep set and
\* prefix_length > 0) lies between a REPLACE line and its END line, and
\* what is cut from it is the prefix of its block, the one check_syntax
\* checked the line for: the line begins with it and is emitted without
\* it; an emitted line that is not between REPLACE and END is emitted
\* whole.
C30_OnlyThePrefixIsCut ==
    (pc = "sanitized" /\ Valid) =>
        \A i \in DOMAIN lines :
            Emitted(i) =>
                /\ sanitize_loop(lines, i).out
                      = Append(sanitize_loop(lines, i - 1).out,
                               SubSeq(lines[i], CutAt(i) + 1, Len(lines[i])))
                /\ CutAt(i) > 0 =>
                      /\ Replacement(i)
                      /\ scan_loop(lines, i).prefix = BlockPrefix(i)
                      /\ CutAt(i) = Len(BlockPrefix(i))
                      /\ startswith(lines[i], BlockPrefix(i))
                      /\ SubSeq(lines[i], 1, CutAt(i)) = BlockPrefix(i)
                /\ ~Replacement(i) => CutAt(i) = 0

\* An accepted file with a replacement line that was emitted without the
\* two characters of its prefix, and a line after the block emitted whole.
C30_Witness ==
    /\ pc = "sanitized"
    /\ Valid
    /\ \E i, j \in DOMAIN lines :
          /\ i < j
          /\ Replacement(i) /\ Emitted(i) /\ CutAt(i) = 2
          /\ Outside(j) /\ Emitted(j) /\ CutAt(j) = 0
          /\ ret = <<Unprefixed(i), lines[j]>>

(***************************************************************************)
(* Properties of the discovery of files and of the repository command.     *)
(***************************************************************************)

\* C24: file_is_dirty returns false for a file whose encoding is binary,
\* without reading it as text; for any other file it returns true exactly
\* when one of the lines of the file holds one of the four tokens, so that
\* a file whose only marker is SHRED is dirty.
C24_DirtyIffSomeToken ==
    pc = "file_is_dirty" =>
        IF args.encoding = "binary"
        THEN ~ret.value /\ ~ret.read
        ELSE /\ ret.value <=> \E i \in DOMAIN lines : HasToken(lines[i])
             /\ (\E i \in DOMAIN lines : token_in(SHRED, lines[i]))
                    => ret.value

\* A text file whose only marker is a SHRED line was found dirty.
C24_Witness ==
    /\ pc = "file_is_dirty"
    /\ args.encoding # "binary"
    /\ lines = << <<SHRED>>, <<"x">> >>
    /\ ret.value

\* C25: after _sanitize_files has processed an accepted file of its list,
\* the file is deleted when its line 1 had the SHRED marker, and otherwise
\* its content on disk is its sanitized text, the empty text included; it
\* is never left with its content from before.
C25_ListedFileIsSanitizedOnDisk ==
    (pc = "sanitize_files" /\ Valid) =>
        IF StartsWithShred THEN ~disk.exists
        ELSE disk = File(join(_sanitize(lines)))

\* The command sanitize-repo is run, with a target branch.
ToTargetBranch == pc = "call" /\ pc' = "sanitize_repo" /\ ~args'.no_commit

\* C21: sanitizing to a target branch leaves the working tree, the index
\* and the HEAD commit of the repository as they were, uncommitted changes
\* and untracked files included when --force is given; the one change to
\* the repository is the target branch, which the fetch moves by the one
\* commit made in the copy, after which the command reports success.
C21_TargetBranchLeavesRepository ==
    [][ToTargetBranch =>
          /\ disk' = disk
          /\ repo'.head = repo.head
          /\ repo'.index = repo.index
          /\ repo'.untracked = repo.untracked
          /\ (repo'.commits # repo.commits \/ repo'.target # repo.target) =>
                /\ repo'.commits = repo.commits + 1
                /\ ret' = Result("SUCCESS", MsgSuccess)]_vars

\* With --force, a repository with a staged change of the file and an
\* untracked file was sanitized to a new target branch: the branch has the
\* sanitized file of the HEAD commit, the change and the untracked file are
\* where they were.
C21_Witness ==
    /\ pc = "sanitize_repo"
    /\ ~args.no_commit
    /\ args.force
    /\ ret = Result("SUCCESS", MsgSuccess)
    /\ repo.untracked
    /\ repo.index # repo.head
    /\ disk = File(join(lines))
    /\ disk = repo.index
    /\ repo.head = File(join(CommittedLines))
    /\ repo.commits = 1
    /\ repo.target = File(<<"x">>)

\* The command sanitize-repo is run.
SanitizeRepoRuns == pc = "call" /\ pc' = "sanitize_repo"

\* C22: when the repository has staged changes, untracked files or unstaged
\* changes and --force is not given, sanitize-repo returns an ERROR result
\* with the message of such a state of the repository, and neither the
\* file nor the target branch changes; with --force the state of the
\* repository gives no ERROR result.
C22_DirtyRepositoryBlocks ==
    [][SanitizeRepoRuns =>
          LET staged == repo.index # repo.head
              untracked == repo.untracked
              unstaged == disk # repo.index
          IN  /\ ((staged \/ untracked \/ unstaged) /\ ~args'.force) =>
                    /\ \/ staged /\ ret' = Result("ERROR", MsgStaged)
                       \/ untracked /\ ret' = Result("ERROR", MsgUntracked)
                       \/ unstaged /\ ret' = Result("ERROR", MsgUnstaged)
                    /\ disk' = disk
                    /\ repo' = repo
              /\ args'.force =>
                    ret' \notin {Result("ERROR", MsgStaged),
                                 Result("ERROR", MsgUntracked),
                                 Result("ERROR", MsgUnstaged)}]_vars

\* Without --force, a repository whose only fault is an untracked file got
\* the ERROR result for untracked files; the marked file is as it was and
\* there is no target branch.
C22_Witness ==
    /\ pc = "sanitize_repo"
    /\ ~args.force
    /\ repo.untracked
    /\ repo.index = repo.head
    /\ disk = repo.index
    /\ IsMarked(lines)
    /\ disk = File(join(lines))
    /\ ret = Result("ERROR", MsgUntracked)
    /\ repo.commits = 0

\* SanitizeRepo._sanitize_to_target_branch is run.
SanitizeToTargetBranchRuns ==
    pc = "call" /\ pc' = "sanitize_to_target_branch"

\* The file the HEAD commit gives once sanitized, the tree that is to be
\* committed.
SanitizedHead == _sanitize_files(repo.head, _discover_dirty_files(repo.head))

\* The files of the HEAD commit give no error.
HeadAccepted ==
    ~file_is_dirty(TextPath, repo.head).ret
        \/ ~check_syntax(split(repo.head.text)).raised

====
